---- MODULE Spec2Model ----
\* A model of app/main.py: the pydantic models, the eight path operations and
\* the request cycle the framework runs around each of them (validation of the
\* declared parameters, the handler body, validation of the returned value
\* against the declared response_model, the HTTP response).
EXTENDS Integers, Sequences, FiniteSets, TLC

\* ---------------------------------------------------------------- bounds
\* How far beyond each declared limit the generated inputs range.
Slack == 1
\* How far beyond the first and last element of persons the ids range.
IdSlack == 1
\* How many earlier requests each of two compared runs may have served.
MaxHistory == 2

\* ------------------------------------------------------- python values
None == [t |-> "None"]
S(s) == [t |-> "str", s |-> s]
I(i) == [t |-> "int", i |-> i]
B(b) == [t |-> "bool", b |-> b]
\* a float, kept exactly as a number of hundredths
F(h) == [t |-> "float", hundredths |-> h]
\* a str kept character by character (an e-mail address)
E(chars) == [t |-> "str", chars |-> chars]
\* a dict literal / a pydantic model instance with its field values
Dict(d) == [t |-> "dict", d |-> d]
Model(cls, d) == [t |-> "model", cls |-> cls, d |-> d]

\* the string of n copies of the character c
RECURSIVE Rep(_, _)
Rep(c, n) ==
    IF n <= 0 THEN ""
    ELSE IF n = 1 THEN c
    ELSE Rep(c, n \div 2) \o Rep(c, n - (n \div 2))

\* one key -> value entry, and the union of two dicts with disjoint keys
Entry(k, v) == [x \in {k} |-> v]
Fields(rec) == [k \in {S(f) : f \in DOMAIN rec} |-> rec[k.s]]

\* --------------------------------------------------------- the models
HairColor == {"white", "brown", "black", "blonde", "red"}

name_min_length == 1
name_max_length == 50
age_gt == 0
age_le == 115
password_min_length == 8
username_min_length == 1
username_max_length == 20
contact_name_min_length == 3
contact_name_max_length == 20
message_min_length == 10
message_max_length == 200

Err(loc, type) == [loc |-> loc, type |-> type]

\* str with optional length bounds (max < 0: no upper bound)
str_validator(loc, v, min, max) ==
    IF v.t # "str" THEN {Err(loc, "type_error.str")}
    ELSE IF Len(v.s) < min THEN {Err(loc, "value_error.any_str.min_length")}
    ELSE IF max >= 0 /\ Len(v.s) > max THEN {Err(loc, "value_error.any_str.max_length")}
    ELSE {}

\* the integers whose decimal text int() is asked to parse in this model
IntTexts == (age_gt - 2)..(age_le + 2)

\* int(): an int stays, a str is parsed, anything else is refused
int_parses(v) ==
    \/ v.t = "int"
    \/ v.t = "str" /\ \E i \in IntTexts : ToString(i) = v.s

int_value(v) ==
    IF v.t = "int" THEN v.i ELSE CHOOSE i \in IntTexts : ToString(i) = v.s

\* int with gt=...
int_gt_validator(loc, v, gt) ==
    IF ~int_parses(v) THEN {Err(loc, "type_error.integer")}
    ELSE IF ~(int_value(v) > gt) THEN {Err(loc, "value_error.number.not_gt")}
    ELSE {}

\* the lower limit taken as inclusive (ge where the field says gt)
int_ge_le_validator(loc, v, gt, le) ==
    IF ~int_parses(v) THEN {Err(loc, "type_error.integer")}
    ELSE IF ~(int_value(v) >= gt) THEN {Err(loc, "value_error.number.not_gt")}
    ELSE IF ~(int_value(v) <= le) THEN {Err(loc, "value_error.number.not_le")}
    ELSE {}

\* int with gt=... and le=...
int_gt_le_validator(loc, v, gt, le) ==
    IF int_gt_validator(loc, v, gt) # {} THEN int_gt_validator(loc, v, gt)
    ELSE IF ~(int_value(v) <= le) THEN {Err(loc, "value_error.number.not_le")}
    ELSE {}

enum_validator(loc, v) ==
    IF v.t = "str" /\ v.s \in HairColor THEN {} ELSE {Err(loc, "type_error.enum")}

bool_validator(loc, v) ==
    IF v.t = "bool" THEN {} ELSE {Err(loc, "type_error.bool")}

Missing(loc) == {Err(loc, "value_error.missing")}

\* a required field (Field(...)) and an optional one (default=None)
Required(d, f) == S(f) \in DOMAIN d
Optional(d, f) == S(f) \in DOMAIN d /\ d[S(f)] # None

PersonBase_errors(d) ==
    (IF Required(d, "first_name")
        THEN str_validator("first_name", d[S("first_name")], name_min_length, name_max_length)
        ELSE Missing("first_name"))
    \cup
    (IF Required(d, "last_name")
        THEN str_validator("last_name", d[S("last_name")], name_min_length, name_max_length)
        ELSE Missing("last_name"))
    \cup
    (IF Required(d, "age")
        THEN int_gt_le_validator("age", d[S("age")], age_gt, age_le)
        ELSE Missing("age"))
    \cup
    (IF Optional(d, "hair_color") THEN enum_validator("hair_color", d[S("hair_color")]) ELSE {})
    \cup
    (IF Optional(d, "is_married") THEN bool_validator("is_married", d[S("is_married")]) ELSE {})

Person_errors(d) ==
    PersonBase_errors(d)
    \cup
    (IF Required(d, "password")
        THEN str_validator("password", d[S("password")], password_min_length, 0 - 1)
        ELSE Missing("password"))

PersonOut_errors(d) == PersonBase_errors(d)

LoginOut_errors(d) ==
    IF Required(d, "username")
        THEN str_validator("username", d[S("username")], username_min_length, username_max_length)
        ELSE Missing("username")

\* the value a validated field takes in the instance (default None when absent)
FieldOr(d, f, default) == IF S(f) \in DOMAIN d THEN d[S(f)] ELSE default

PersonBase(d) ==
    [first_name |-> d[S("first_name")],
     last_name  |-> d[S("last_name")],
     age        |-> I(int_value(d[S("age")])),
     hair_color |-> FieldOr(d, "hair_color", None),
     is_married |-> FieldOr(d, "is_married", None)]

Person(d) ==
    Model("Person",
          Fields([first_name |-> PersonBase(d).first_name,
                  last_name  |-> PersonBase(d).last_name,
                  age        |-> PersonBase(d).age,
                  hair_color |-> PersonBase(d).hair_color,
                  is_married |-> PersonBase(d).is_married,
                  password   |-> d[S("password")]]))

PersonOut(d) == Model("PersonOut", Fields(PersonBase(d)))

LoginOut(d) ==
    Model("LoginOut",
          Fields([username |-> d[S("username")],
                  message  |-> FieldOr(d, "message", S("Succesfully Logged"))]))

\* ------------------------------------------------- the path operations
\* What a handler body does: it returns a value or raises, and leaves the
\* module-level list persons as its last component.
Return(v, ps) == [raised |-> FALSE, value |-> v, persons |-> ps]
Raise(e, ps) == [raised |-> TRUE, exc |-> e, persons |-> ps]
HTTPException(status_code, detail) ==
    [type |-> "HTTPException", status_code |-> status_code, detail |-> detail]
ValidationError(errors) == [type |-> "ValidationError", errors |-> errors]

Elems(ps) == {ps[i] : i \in 1..Len(ps)}

home(ps) == Return(Dict(Entry(S("Hello"), S("World"))), ps)

\* the handler also recording the new person in persons
create_person_appending(person, ps) == Return(person, Append(ps, Len(ps) + 1))

create_person(person, ps) == Return(person, ps)

\* GET /person/detail: return {name: age}
show_person_query(name, age, ps) == Return(Dict(Entry(name, age)), ps)

\* the handler without its membership test
show_person_unchecked(person_id, ps) ==
    Return(Dict(Entry(I(person_id), S("It exists!"))), ps)

\* GET /person/detail/{person_id}
show_person(person_id, ps) ==
    IF person_id \notin Elems(ps)
        THEN Raise(HTTPException(404, S("Person not found... :[")), ps)
        ELSE Return(Dict(Entry(I(person_id), S("It exists!"))), ps)

\* the handler also recording the updated person in persons
update_person_appending(person_id, person, ps) ==
    Return(person, Append(ps, Len(ps) + 1))

update_person(person_id, person, ps) == Return(person, ps)

\* the handler building LoginOut from the wrong form field
login_from_password(username, password, ps) ==
    IF LoginOut_errors(Entry(S("username"), password)) # {}
        THEN Raise(ValidationError(LoginOut_errors(Entry(S("username"), password))), ps)
        ELSE Return(LoginOut(Entry(S("username"), password)), ps)

\* return LoginOut(username = username): the constructor validates
login(username, password, ps) ==
    IF LoginOut_errors(Entry(S("username"), username)) # {}
        THEN Raise(ValidationError(LoginOut_errors(Entry(S("username"), username))), ps)
        ELSE Return(LoginOut(Entry(S("username"), username)), ps)

contact(first_name, last_name, email, message, user_agent, ads, ps) ==
    Return(user_agent, ps)

MiB == 1024 * 1024

\* the quotient cut to two decimals instead of rounded
round2_truncating(n) == (100 * n) \div MiB

\* round(x, ndigits = 2) of the float n / 2^20, which is exact: the nearest
\* hundredth of the exact quotient, a tie going to the even one
round2(n) ==
    LET q == (100 * n) \div MiB
        r == (100 * n) % MiB
    IN  IF 2 * r < MiB THEN q
        ELSE IF 2 * r > MiB THEN q + 1
        ELSE IF q % 2 = 0 THEN q ELSE q + 1

post_image(image, ps) ==
    Return(Dict([k \in {S("File name"), S("Content type"), S("Size (mb)")} |->
                    IF k = S("File name") THEN image.filename
                    ELSE IF k = S("Content type") THEN image.content_type
                    ELSE F(round2(image.size))]),
           ps)

\* ---------------------------------------------- the framework's cycle
\* Form(...): an absent or empty form value counts as missing
form_validator(loc, v, min, max) ==
    IF v = None \/ (v.t = "str" /\ Len(v.s) = 0) THEN Missing(loc)
    ELSE str_validator(loc, v, min, max)

\* EmailStr: one "@", something before it, a dotted domain after it
EmailStr_ok(s) ==
    LET n == Len(s)
        ats == {i \in 1..n : s[i] = "@"}
    IN  /\ Cardinality(ats) = 1
        /\ \E a \in ats :
              /\ a > 1
              /\ \E j \in (a + 2)..(n - 1) : s[j] = "."
              /\ \A j \in 1..n : s[j] = "." => j \notin {1, a - 1, a + 1, n}

email_validator(loc, v) ==
    IF v = None \/ Len(v.chars) = 0 THEN Missing(loc)
    ELSE IF EmailStr_ok(v.chars) THEN {}
    ELSE {Err(loc, "value_error.email")}

\* a JSON body declared as Person = Body(...)
body_person_errors(body) ==
    IF body = None THEN Missing("person")
    ELSE IF body.t # "dict" THEN {Err("person", "type_error.dict")}
    ELSE Person_errors(body.d)

path_person_id_errors(person_id) == int_gt_validator("person_id", person_id, 0)

Response(status, body) == [status |-> status, body |-> body]

RequestValidationError(errors) ==
    Response(422, Dict(Entry(S("detail"), [t |-> "list", items |-> errors])))

InternalServerError == Response(500, S("Internal Server Error"))

\* the returned value checked against (and cut down to) the response_model
response_errors(response_model, value) ==
    IF response_model = "None" THEN {}
    ELSE IF value.t \notin {"dict", "model"} THEN {Err("response", "type_error.dict")}
    ELSE IF response_model = "PersonOut" THEN PersonOut_errors(value.d)
    ELSE LoginOut_errors(value.d)

\* the returned value sent as it is, without the response_model's fields
serialize_response_unfiltered(response_model, value) ==
    IF value.t = "model" THEN Dict(value.d) ELSE value

serialize_response(response_model, value) ==
    IF response_model = "PersonOut" THEN Dict(PersonOut(value.d).d)
    ELSE IF response_model = "LoginOut" THEN Dict(LoginOut(value.d).d)
    ELSE IF value.t = "model" THEN Dict(value.d)
    ELSE value

\* One request from the validated parameters to the response: errors are the
\* request's validation errors, result the handler's outcome (looked at only
\* when there are none).
Cycle(errors, result, response_model, status_code, ps) ==
    IF errors # {}
        THEN [response |-> RequestValidationError(errors), ran |-> FALSE, persons |-> ps]
    ELSE IF result.raised
        THEN [response |-> IF result.exc.type = "HTTPException"
                              THEN Response(result.exc.status_code,
                                            Dict(Entry(S("detail"), result.exc.detail)))
                              ELSE InternalServerError,
              ran |-> TRUE, persons |-> result.persons]
    ELSE IF response_errors(response_model, result.value) # {}
        THEN [response |-> InternalServerError, ran |-> TRUE, persons |-> result.persons]
    ELSE [response |-> Response(status_code, serialize_response(response_model, result.value)),
          ran |-> TRUE, persons |-> result.persons]

\* GET /
ServeHome(r, ps) == Cycle({}, home(ps), "None", 200, ps)

\* POST /person/new
ServeCreatePerson(r, ps) ==
    Cycle(body_person_errors(r.person),
          create_person(Person(r.person.d), ps), "PersonOut", 201, ps)

\* GET /person/detail
ServeShowPersonQuery(r, ps) ==
    Cycle((IF r.name = None THEN {}
           ELSE str_validator("name", r.name, name_min_length, name_max_length))
          \cup (IF r.age = None THEN Missing("age") ELSE str_validator("age", r.age, 0, 0 - 1)),
          show_person_query(r.name, r.age, ps), "PersonOut", 200, ps)

\* GET /person/detail/{person_id}
ServeShowPerson(r, ps) ==
    Cycle(path_person_id_errors(r.person_id),
          show_person(int_value(r.person_id), ps), "PersonOut", 200, ps)

\* PUT /person/{person_id}
ServeUpdatePerson(r, ps) ==
    Cycle(path_person_id_errors(r.person_id) \cup body_person_errors(r.person),
          update_person(int_value(r.person_id), Person(r.person.d), ps), "PersonOut", 202, ps)

\* POST /login
ServeLogin(r, ps) ==
    Cycle(form_validator("username", r.username, 0, 0 - 1)
          \cup form_validator("password", r.password, 0, 0 - 1),
          login(r.username, r.password, ps), "LoginOut", 200, ps)

\* POST /contact
ServeContact(r, ps) ==
    Cycle(form_validator("first_name", r.first_name,
                         contact_name_min_length, contact_name_max_length)
          \cup form_validator("last_name", r.last_name,
                              contact_name_min_length, contact_name_max_length)
          \cup email_validator("email", r.email)
          \cup form_validator("message", r.message, message_min_length, message_max_length),
          contact(r.first_name, r.last_name, r.email, r.message, r.user_agent, r.ads, ps),
          "None", 200, ps)

\* POST /upload-image
ServeUploadImage(r, ps) ==
    Cycle(IF r.image = None THEN Missing("image") ELSE {},
          post_image(r.image, ps), "None", 200, ps)

\* the routes of app, in the order the decorators register them
Serve(r, ps) ==
    CASE r.endpoint = "home" -> ServeHome(r, ps)
      [] r.endpoint = "create_person" -> ServeCreatePerson(r, ps)
      [] r.endpoint = "show_person_query" -> ServeShowPersonQuery(r, ps)
      [] r.endpoint = "show_person" -> ServeShowPerson(r, ps)
      [] r.endpoint = "update_person" -> ServeUpdatePerson(r, ps)
      [] r.endpoint = "login" -> ServeLogin(r, ps)
      [] r.endpoint = "contact" -> ServeContact(r, ps)
      [] r.endpoint = "upload_image" -> ServeUploadImage(r, ps)

\* ------------------------------------------------------------- inputs
\* lengths at and around a lower and an upper limit, s beyond each
LensNear(min, max, s) == {n \in ((min - s)..min) \cup (max..(max + s)) : n >= 0}

\* ints at and around the limits of age
AgesNear(s) == ((age_gt - s)..(age_gt + 1)) \cup (age_le..(age_le + s))

HairInputs == {None, S("black"), S("green")}
MarriedInputs == {None, B(TRUE), B(FALSE)}

PersonBodies(s) ==
    {Dict(Fields([first_name |-> S(Rep("a", fn)), last_name |-> S(Rep("b", ln)),
                  age |-> I(a), hair_color |-> h, is_married |-> m,
                  password |-> S(Rep("p", pw))])) :
        fn \in LensNear(name_min_length, name_max_length, s),
        ln \in LensNear(name_min_length, name_max_length, s),
        a \in AgesNear(s), h \in HairInputs, m \in MarriedInputs,
        pw \in LensNear(password_min_length, password_min_length, s)}

PersonIds == {I(i) : i \in (1 - IdSlack - 1)..(5 + IdSlack)}
UpdateIds == {I(i) : i \in (1 - IdSlack)..IdSlack}

QueryNames(s) ==
    {None, S("first_name"), S("age")}
    \cup {S(Rep("n", n)) : n \in LensNear(name_min_length, name_max_length, s)}
QueryAges == {None, S("25"), S("abc"), S("")}

Usernames(s) ==
    {None} \cup {S(Rep("u", n)) : n \in LensNear(username_min_length, username_max_length, s)}
Passwords(s) ==
    {None, S("")}
    \cup {S(Rep(c, n)) : c \in {"p", "q"},
                         n \in LensNear(password_min_length, password_min_length, s)}

Emails ==
    {None, E(<<>>), E(<<"u", "@", "e", ".", "c", "l">>), E(<<"u", "e", ".", "c", "l">>),
     E(<<"u", "@", "e">>), E(<<"@", "e", ".", "c", "l">>)}
UserAgents == {None, S("curl/7.0")}

FileSizes(s) ==
    {n \in {b + d : b \in {1, 5242, 5243, 15728, 131072, 393216, MiB},
                    d \in (0 - s - 1)..(s + 1)} : n >= 0}
Images(s) ==
    {None}
    \cup {[t |-> "file", filename |-> S(f), content_type |-> S(c), size |-> n] :
            f \in {"a.png", "b.jpg"}, c \in {"image/png", "image/jpeg"}, n \in FileSizes(s)}

HomeRequests == {[endpoint |-> "home"]}
CreatePersonRequests(s) ==
    {[endpoint |-> "create_person", person |-> p] : p \in PersonBodies(s)}
ShowPersonQueryRequests(s) ==
    {[endpoint |-> "show_person_query", name |-> n, age |-> a] :
        n \in QueryNames(s), a \in QueryAges}
ShowPersonRequests == {[endpoint |-> "show_person", person_id |-> i] : i \in PersonIds}
UpdatePersonRequests(s) ==
    {[endpoint |-> "update_person", person_id |-> i, person |-> p] :
        i \in UpdateIds, p \in PersonBodies(s)}
LoginRequests(s) ==
    {[endpoint |-> "login", username |-> u, password |-> p] :
        u \in Usernames(s), p \in Passwords(s)}
ContactRequests(s) ==
    {[endpoint |-> "contact", first_name |-> S(Rep("f", fn)), last_name |-> S(Rep("l", ln)),
      email |-> e, message |-> S(Rep("m", mn)), user_agent |-> ua, ads |-> None] :
        fn \in LensNear(contact_name_min_length, contact_name_max_length, s),
        ln \in LensNear(contact_name_min_length, contact_name_max_length, s),
        e \in Emails,
        mn \in LensNear(message_min_length, message_max_length, s),
        ua \in UserAgents}
UploadImageRequests(s) == {[endpoint |-> "upload_image", image |-> i] : i \in Images(s)}

\* -------------------------------------------------------------- state
VARIABLES
    persons,    \* the module-level list persons
    request,    \* the request being answered, None between requests
    response,   \* its response
    ran,        \* whether the handler body ran for it
    persons2,   \* persons in a second run of the service
    response2,  \* the second run's response to the same request
    hist,       \* requests the first run served before the compared one
    hist2       \* requests the second run served before the compared one

vars == <<persons, request, response, ran, persons2, response2, hist, hist2>>
pair == <<persons2, response2, hist, hist2>>

Init ==
    /\ persons = <<1, 2, 3, 4, 5>>
    /\ request = None
    /\ response = None
    /\ ran = FALSE
    /\ persons2 = <<1, 2, 3, 4, 5>>
    /\ response2 = None
    /\ hist = 0
    /\ hist2 = 0

\* the service answers request r
Answer(r) ==
    LET out == Serve(r, persons)
    IN  /\ request' = r
        /\ response' = out.response
        /\ ran' = out.ran
        /\ persons' = out.persons
        /\ UNCHANGED pair

Home ==
    /\ request = None
    /\ \E r \in HomeRequests : Answer(r)
CreatePerson ==
    /\ request = None
    /\ \E r \in CreatePersonRequests(Slack) : Answer(r)
ShowPersonQuery ==
    /\ request = None
    /\ \E r \in ShowPersonQueryRequests(Slack) : Answer(r)
ShowPerson ==
    /\ request = None
    /\ \E r \in ShowPersonRequests : Answer(r)
UpdatePerson ==
    /\ request = None
    /\ \E r \in UpdatePersonRequests(Slack) : Answer(r)
Login ==
    /\ request = None
    /\ \E r \in LoginRequests(Slack) : Answer(r)
Contact ==
    /\ request = None
    /\ \E r \in ContactRequests(Slack) : Answer(r)
UploadImage ==
    /\ request = None
    /\ \E r \in UploadImageRequests(Slack) : Answer(r)

\* the response is sent and the request's objects are dropped
Finish ==
    /\ request # None
    /\ request' = None
    /\ response' = None
    /\ ran' = FALSE
    /\ UNCHANGED <<persons, pair>>

Next ==
    \/ Home
    \/ CreatePerson
    \/ ShowPersonQuery
    \/ ShowPerson
    \/ UpdatePerson
    \/ Login
    \/ Contact
    \/ UploadImage
    \/ Finish

Spec == Init /\ [][Next]_vars

\* ------------------------------------------- two runs of the service
\* Two runs of the same service, each after a history of its own, are given
\* the same request.
PairRequests ==
    HomeRequests \cup CreatePersonRequests(0) \cup ShowPersonQueryRequests(0)
    \cup ShowPersonRequests \cup UpdatePersonRequests(0) \cup LoginRequests(0)
    \cup ContactRequests(0) \cup UploadImageRequests(0)

\* the first run serves one more earlier request
Earlier1 ==
    /\ request = None
    /\ hist < MaxHistory
    /\ \E r \in PairRequests : persons' = Serve(r, persons).persons
    /\ hist' = hist + 1
    /\ UNCHANGED <<request, response, ran, persons2, response2, hist2>>

\* the second run serves one more earlier request
Earlier2 ==
    /\ request = None
    /\ hist2 < MaxHistory
    /\ \E r \in PairRequests : persons2' = Serve(r, persons2).persons
    /\ hist2' = hist2 + 1
    /\ UNCHANGED <<request, response, ran, persons, response2, hist>>

\* both runs answer the same request
Same ==
    /\ request = None
    /\ \E r \in PairRequests :
          LET out == Serve(r, persons)
              out2 == Serve(r, persons2)
          IN  /\ request' = r
              /\ response' = out.response
              /\ ran' = out.ran
              /\ persons' = out.persons
              /\ response2' = out2.response
              /\ persons2' = out2.persons
    /\ UNCHANGED <<hist, hist2>>

FinishPair ==
    /\ request # None
    /\ request' = None
    /\ response' = None
    /\ ran' = FALSE
    /\ response2' = None
    /\ UNCHANGED <<persons, persons2, hist, hist2>>

NextPair ==
    \/ Earlier1
    \/ Earlier2
    \/ Same
    \/ FinishPair

SpecPair == Init /\ [][NextPair]_vars

\* ------------------------------------------------------------- claims
Answered(e) == request # None /\ request.endpoint = e

PersonRequest == Answered("create_person") \/ Answered("update_person")

\* the bounds of a Person payload as the claims state them
OutOfBounds(p) ==
    \/ p[S("age")].i <= 0
    \/ p[S("age")].i > 115
    \/ Len(p[S("first_name")].s) = 0
    \/ Len(p[S("first_name")].s) > 50
    \/ Len(p[S("last_name")].s) = 0
    \/ Len(p[S("last_name")].s) > 50
    \/ Len(p[S("password")].s) < 8

HairColorOk(p) ==
    p[S("hair_color")] \in {None, S("white"), S("brown"), S("black"), S("blonde"), S("red")}

PathIdOk == Answered("update_person") => request.person_id.i > 0

PersonOutKeys == {S("first_name"), S("last_name"), S("age"), S("hair_color"), S("is_married")}

\* C1: a valid Person payload sent to POST /person/new, or to PUT
\* /person/{person_id} with person_id > 0, comes back without the password
\* field and with the five other fields exactly as submitted.
C1_RoundTripMinusPassword ==
    (PersonRequest /\ PathIdOk
        /\ ~OutOfBounds(request.person.d) /\ HairColorOk(request.person.d))
    => /\ response.status = (IF Answered("create_person") THEN 201 ELSE 202)
       /\ response.body.t = "dict"
       /\ DOMAIN response.body.d = PersonOutKeys
       /\ S("password") \notin DOMAIN response.body.d
       /\ \A k \in PersonOutKeys : response.body.d[k] = request.person.d[k]

C1_Witness ==
    /\ Answered("update_person")
    /\ request.person_id.i > 0
    /\ ~OutOfBounds(request.person.d)
    /\ request.person.d[S("hair_color")] = S("black")
    /\ request.person.d[S("is_married")] = B(TRUE)
    /\ response.status = 202
    /\ S("password") \notin DOMAIN response.body.d

NotFoundBody == Dict(Entry(S("detail"), S("Person not found... :[")))

\* C2 as stated: every person_id outside {1,2,3,4,5}, zero and negative ids
\* included, gets the 404 with the literal message.
C2_AnyUnknownIdIsNotFound ==
    (Answered("show_person") /\ request.person_id.i \notin 1..5)
    => (response.status = 404 /\ response.body = NotFoundBody)

\* C2 amended: a person_id above 0 that is outside {1,2,3,4,5} gets the 404
\* with the literal message; a person_id of 0 or below is refused by the path
\* validation with a 422 before the handler runs.
C2_PositiveUnknownIdIsNotFound ==
    Answered("show_person")
    => /\ (request.person_id.i > 0 /\ request.person_id.i \notin 1..5)
            => (response.status = 404 /\ response.body = NotFoundBody /\ ran)
       /\ request.person_id.i <= 0 => (response.status = 422 /\ ~ran)

C2_Witness ==
    /\ Answered("show_person")
    /\ request.person_id.i = 6
    /\ response.status = 404
    /\ response.body = NotFoundBody

\* C3: a person_id in {1,2,3,4,5} gets a 200 whose payload echoes the id.
C3_KnownIdIsReported ==
    (Answered("show_person") /\ request.person_id.i \in 1..5)
    => /\ response.status = 200
       /\ response.body.t = "dict"
       /\ \E k \in DOMAIN response.body.d : k \in {request.person_id, S(ToString(request.person_id.i))}

\* C4 as stated: a Person payload is refused, the handler not run, exactly
\* when one of the listed bounds is violated; otherwise it is accepted.
C4_RejectedIffOutOfBounds ==
    PersonRequest
    => /\ OutOfBounds(request.person.d) => (response.status = 422 /\ ~ran)
       /\ ~OutOfBounds(request.person.d) => (ran /\ response.status \in {201, 202})

\* C4 amended: a payload violating one of the listed bounds is refused with a
\* 422 and the handler is not run; a payload violating none of them is
\* accepted when its hair_color is null or one of the five colours and, for
\* PUT, the person_id of the path is above 0.
C4_RejectedWhenOutOfBounds ==
    PersonRequest
    => /\ OutOfBounds(request.person.d) => (response.status = 422 /\ ~ran)
       /\ (~OutOfBounds(request.person.d) /\ HairColorOk(request.person.d) /\ PathIdOk)
            => (ran /\ response.status \in {201, 202})

C4_Witness ==
    /\ Answered("create_person")
    /\ request.person.d[S("age")].i = 116
    /\ Len(request.person.d[S("first_name")].s) = 50
    /\ Len(request.person.d[S("last_name")].s) = 1
    /\ Len(request.person.d[S("password")].s) = 8
    /\ response.status = 422
    /\ ~ran

\* C5: a constraint violation on an endpoint's data, a POST /login with a
\* username longer than 20 characters included, ends in a 4xx client error
\* and never in a 5xx.
C5_ViolationIsClientError ==
    (\/ PersonRequest /\ OutOfBounds(request.person.d)
     \/ Answered("login") /\ request.username # None /\ Len(request.username.s) > 20)
    => response.status \in 400..499

\* C6: GET /person/detail with the required age and an optional name of 1-50
\* characters is answered with a 200.
C6_DetailQueryIsOk ==
    (Answered("show_person_query") /\ request.age # None
        /\ (request.name = None \/ Len(request.name.s) \in 1..50))
    => response.status = 200

\* C7: POST /login with a username of 1-20 characters and a password of 8 or
\* more characters is answered with a 200 and exactly the submitted username
\* and the fixed message, whatever the password.
C7_LoginBody ==
    (Answered("login") /\ request.username # None /\ request.password # None
        /\ Len(request.username.s) \in 1..20 /\ Len(request.password.s) >= 8)
    => /\ response.status = 200
       /\ response.body = Dict(Fields([username |-> request.username,
                                       message |-> S("Succesfully Logged")]))

C7_Witness ==
    /\ Answered("login")
    /\ request.username = S(Rep("u", 20))
    /\ request.password = S(Rep("q", 8))
    /\ response.status = 200
    /\ response.body.d[S("username")] = S(Rep("u", 20))

C9_SameRequestSameResponse == request # None => response = response2

C9_Witness ==
    /\ Answered("show_person")
    /\ request.person_id.i = 6
    /\ hist = MaxHistory
    /\ hist2 = 0
    /\ response.status = 404
    /\ response2.status = 404

Abs(x) == IF x < 0 THEN 0 - x ELSE x

\* C10: an upload of N bytes is answered with a 200 carrying the file's name,
\* its content type and N/(1024*1024) rounded to the nearest hundredth, which
\* is 0.0 for a file of fewer than 5243 bytes.
C10_UploadSize ==
    (Answered("upload_image") /\ request.image # None)
    => /\ response.status = 200
       /\ response.body.d[S("File name")] = request.image.filename
       /\ response.body.d[S("Content type")] = request.image.content_type
       /\ response.body.d[S("Size (mb)")].t = "float"
       /\ 2 * Abs(100 * request.image.size
                  - response.body.d[S("Size (mb)")].hundredths * 1048576) <= 1048576
       /\ request.image.size < 5243 => response.body.d[S("Size (mb)")].hundredths = 0

C10_Witness ==
    /\ Answered("upload_image")
    /\ request.image # None
    /\ request.image.size = 5243
    /\ response.status = 200
    /\ response.body.d[S("Size (mb)")] = F(1)
====
